---------------------------- MODULE Spec2Model ----------------------------
(***************************************************************************)
(* Model of the documentation crawler of mini/scrape_docs.py:             *)
(* DocumentationScraper.__init__, is_valid_url, normalize_url,            *)
(* extract_links, scrape_page and run.                                    *)
(*                                                                         *)
(* A URL is a sequence of one-character strings.  The scheme "https" is   *)
(* written with the single letter h and a host with a single letter, so   *)
(* <<"h",":","/","/","x","/","d">> reads https://x.com/d.                 *)
(***************************************************************************)
EXTENDS Naturals, Integers, Sequences, FiniteSets, Bags, TLC

(***************************************************************************)
(* Strings                                                                 *)
(***************************************************************************)

\* The letters of the alphabet (str.isalpha / urllib scheme_chars).
Alpha == {"h", "H", "x", "y", "d", "a", "b", "c", "o", "f", "q", "s", "m", "T",
          "i", "n", "e"}

\* The digits (str.isdigit).
Digits == {"1"}

\* str.lower on one character.
LowerChar(c) == IF c = "H" THEN "h" ELSE c

\* str.lower
Lower(s) == [i \in 1..Len(s) |-> LowerChar(s[i])]

\* s[i:] of Python, with i a 0-based offset.
Drop(s, i) == IF i >= Len(s) THEN <<>> ELSE SubSeq(s, i + 1, Len(s))

\* Mutant of rstrip: one trailing c is removed.
rstrip_One(s, c) ==
    IF s # <<>> /\ s[Len(s)] = c THEN SubSeq(s, 1, Len(s) - 1)
    ELSE s

\* str.rstrip(c): every trailing c is removed.
RECURSIVE rstrip(_, _)
rstrip(s, c) ==
    IF s # <<>> /\ s[Len(s)] = c THEN rstrip(SubSeq(s, 1, Len(s) - 1), c)
    ELSE s

\* str.startswith
startswith(s, p) == Len(p) <= Len(s) /\ SubSeq(s, 1, Len(p)) = p

\* 1-based position of the first character of s that is in cs, 0 if none
\* (str.find, plus one).
FindAny(s, cs) ==
    IF \E i \in 1..Len(s) : s[i] \in cs
    THEN CHOOSE i \in 1..Len(s) : s[i] \in cs /\ \A j \in 1..(i - 1) : s[j] \notin cs
    ELSE 0

\* The element of a one-element set.  Writing The({e(v) : v \in {x}}) for
\* e(x) evaluates x once, however often e uses it.
The(S) == CHOOSE r \in S : TRUE

\* str.split(c): the list of the pieces between the occurrences of c.
RECURSIVE Split(_, _)
Split(s, c) ==
    The({ IF FindAny(t, {c}) = 0 THEN <<t>>
          ELSE <<SubSeq(t, 1, FindAny(t, {c}) - 1)>> \o Split(Drop(t, FindAny(t, {c})), c)
          : t \in {s} })

\* c.join(parts)
RECURSIVE Join(_, _)
Join(parts, c) ==
    IF parts = <<>> THEN <<>>
    ELSE IF Len(parts) = 1 THEN parts[1]
    ELSE parts[1] \o <<c>> \o Join(Tail(parts), c)

\* filter(None, parts): the non-empty pieces, in order.
RECURSIVE FilterEmpty(_)
FilterEmpty(parts) ==
    IF parts = <<>> THEN <<>>
    ELSE IF parts[1] = <<>> THEN FilterEmpty(Tail(parts))
    ELSE <<parts[1]>> \o FilterEmpty(Tail(parts))

\* str.lstrip(c): every leading c is removed.
RECURSIVE lstrip(_, _)
lstrip(s, c) ==
    IF s # <<>> /\ s[1] = c THEN lstrip(Tail(s), c)
    ELSE s

\* str.strip(c)
strip(s, c) == lstrip(rstrip(s, c), c)

\* str.endswith
endswith(s, p) == Len(p) <= Len(s) /\ SubSeq(s, Len(s) - Len(p) + 1, Len(s)) = p

\* Mutant of replace: only the first occurrence of old is replaced.
RECURSIVE replace_First(_, _, _)
replace_First(s, old, new) ==
    The({ IF old = <<>> \/ Len(t) < Len(old) THEN t
          ELSE IF startswith(t, old) THEN new \o Drop(t, Len(old))
          ELSE <<t[1]>> \o replace_First(Tail(t), old, new)
          : t \in {s} })

\* str.replace(old, new): every occurrence of old, left to right, without
\* overlap.
RECURSIVE replace(_, _, _)
replace(s, old, new) ==
    The({ IF old = <<>> \/ Len(t) < Len(old) THEN t
          ELSE IF startswith(t, old) THEN new \o replace(Drop(t, Len(old)), old, new)
          ELSE <<t[1]>> \o replace(Tail(t), old, new)
          : t \in {s} })

\* The characters the pattern [^\w\-_\.] of url_to_filename leaves alone.
FilenameChars == Alpha \cup Digits \cup {"_", "-", "."}

\* re.sub(r'[^\w\-_\.]', '_', s): each other character becomes an underscore.
SubSpecial(s) == [i \in 1..Len(s) |-> IF s[i] \in FilenameChars THEN s[i] ELSE "_"]

\* re.sub(r'_+', '_', s): each run of underscores becomes one underscore.
SubUnderscores(s) ==
    LET keep == {i \in 1..Len(s) : ~(s[i] = "_" /\ i > 1 /\ s[i - 1] = "_")}
        nth(k) == CHOOSE i \in keep : Cardinality({j \in keep : j < i}) = k - 1
    IN  [k \in 1..Cardinality(keep) |-> s[nth(k)]]

\* str.strip(): leading and trailing whitespace is removed.
strip_ws(s) == strip(s, " ")

(***************************************************************************)
(* urllib.parse, as called by normalize_url and extract_links              *)
(***************************************************************************)

\* The schemes urljoin resolves relative references for (uses_relative,
\* uses_netloc): h stands for https.
UsesRelative == {<<"h">>}

\* urlsplit: the scheme before the first colon, lower-cased, when all its
\* characters are letters; dflt otherwise.
SplitScheme(url, dflt) ==
    The({ LET colon     == FindAny(u, {":"})
              hasScheme == colon > 1 /\ \A j \in 1..(colon - 1) : u[j] \in Alpha
          IN  IF hasScheme
              THEN [scheme |-> Lower(SubSeq(u, 1, colon - 1)), rest |-> Drop(u, colon)]
              ELSE [scheme |-> dflt, rest |-> u]
          : u \in {url} })

\* urlsplit: after "//" the netloc runs to the first of / ? #.  error is
\* TRUE when urlsplit raises ValueError("Invalid IPv6 URL").
SplitNetloc(parts) ==
    The({ LET hasNetloc == startswith(p.rest, <<"/", "/">>)
              afterSl   == Drop(p.rest, 2)
              delim     == FindAny(afterSl, {"/", "?", "#"})
              netloc    == IF ~hasNetloc THEN <<>>
                           ELSE IF delim = 0 THEN afterSl ELSE SubSeq(afterSl, 1, delim - 1)
              open      == \E i \in 1..Len(netloc) : netloc[i] = "["
              close     == \E i \in 1..Len(netloc) : netloc[i] = "]"
          IN  [scheme |-> p.scheme, netloc |-> netloc,
               rest   |-> IF ~hasNetloc THEN p.rest
                          ELSE IF delim = 0 THEN <<>> ELSE Drop(afterSl, delim - 1),
               error  |-> (open /\ ~close) \/ (close /\ ~open)]
          : p \in {parts} })

\* urlsplit: the fragment follows the first #.
SplitFragment(parts) ==
    The({ LET hash == FindAny(p.rest, {"#"})
          IN  [scheme |-> p.scheme, netloc |-> p.netloc, error |-> p.error,
               fragment |-> IF hash = 0 THEN <<>> ELSE Drop(p.rest, hash),
               rest     |-> IF hash = 0 THEN p.rest ELSE SubSeq(p.rest, 1, hash - 1)]
          : p \in {parts} })

\* urlsplit: the query follows the first ?; what is left is the path.
SplitQuery(parts) ==
    The({ LET qm == FindAny(p.rest, {"?"})
          IN  [scheme |-> p.scheme, netloc |-> p.netloc, error |-> p.error,
               fragment |-> p.fragment,
               query    |-> IF qm = 0 THEN <<>> ELSE Drop(p.rest, qm),
               path     |-> IF qm = 0 THEN p.rest ELSE SubSeq(p.rest, 1, qm - 1)]
          : p \in {parts} })

\* urlparse(url, scheme=dflt): scheme, netloc, path, query, fragment.
urlparse(url, dflt) == SplitQuery(SplitFragment(SplitNetloc(SplitScheme(url, dflt))))

\* urlunparse of the five parts.
urlunparse(scheme, netloc, path, query, fragment) ==
    LET u1 == IF netloc # <<>> \/ (scheme \in UsesRelative /\ ~startswith(path, <<"/", "/">>))
              THEN <<"/", "/">> \o netloc \o
                   (IF path # <<>> /\ path[1] # "/" THEN <<"/">> \o path ELSE path)
              ELSE path
        u2 == IF scheme # <<>> THEN scheme \o <<":">> \o u1 ELSE u1
        u3 == IF query # <<>> THEN u2 \o <<"?">> \o query ELSE u2
    IN  IF fragment # <<>> THEN u3 \o <<"#">> \o fragment ELSE u3

\* urljoin: the path of reference r resolved against the path of base b,
\* for references without dot segments.
ResolvePath(bpath, rpath) ==
    The({ The({ IF Join(segments, "/") = <<>> THEN <<"/">> ELSE Join(segments, "/")
                : segments \in
                    { IF rpath[1] = "/" THEN Split(rpath, "/")
                      ELSE IF Len(segs0) <= 2 THEN segs0
                      ELSE <<segs0[1]>> \o FilterEmpty(SubSeq(segs0, 2, Len(segs0) - 1))
                           \o <<segs0[Len(segs0)]>> } })
          : segs0 \in
              { (IF bparts0[Len(bparts0)] # <<>>
                 THEN SubSeq(bparts0, 1, Len(bparts0) - 1) ELSE bparts0)
                \o Split(rpath, "/") : bparts0 \in {Split(bpath, "/")} } })

\* urljoin(base, url).  error is TRUE when parsing raises ValueError.
urljoin(base, url) ==
    IF base = <<>> THEN [error |-> FALSE, url |-> url]
    ELSE IF url = <<>> THEN [error |-> FALSE, url |-> base]
    ELSE
    The({ The({ IF b.error \/ r.error THEN [error |-> TRUE, url |-> <<>>]
                ELSE IF r.scheme # b.scheme \/ r.scheme \notin UsesRelative
                     THEN [error |-> FALSE, url |-> url]
                ELSE IF r.netloc # <<>>
                     THEN [error |-> FALSE,
                           url |-> urlunparse(r.scheme, r.netloc, r.path, r.query, r.fragment)]
                ELSE IF r.path = <<>>
                     THEN [error |-> FALSE,
                           url |-> urlunparse(r.scheme, b.netloc, b.path,
                                              IF r.query = <<>> THEN b.query ELSE r.query,
                                              r.fragment)]
                ELSE [error |-> FALSE,
                      url |-> urlunparse(r.scheme, b.netloc, ResolvePath(b.path, r.path),
                                         r.query, r.fragment)]
                : r \in {urlparse(url, b.scheme)} })
          : b \in {urlparse(base, <<>>)} })

(***************************************************************************)
(* The sites crawled.  A site maps the normalized URL of each page it      *)
(* serves to the href attributes of the anchors of that page; any other    *)
(* URL answers with a non-success status.                                  *)
(***************************************************************************)

Origin == <<"h", ":", "/", "/", "x">>

PageA == Origin \o <<"/", "d">>
PageB == Origin \o <<"/", "d", "/", "a">>
PageC == Origin \o <<"/", "d", "/", "b">>
PageSibling == Origin \o <<"/", "d", "d">>
PageOther == Origin \o <<"/", "o">>
PageQuery == PageB \o <<"?", "q">>
PageDead == Origin \o <<"/", "d", "/", "c">>
PageExternal == <<"h", ":", "/", "/", "y", "/", "d">>
HrefMalformed == <<"h", ":", "/", "/", "[">>

\* A links to B and C; B and C link to each other and back to A.
SiteTriangle ==
    (PageA :> {PageB, PageC}) @@ (PageB :> {PageC, PageA}) @@ (PageC :> {PageB, PageA})

\* Links written with trailing slashes, fragments, relative references, a
\* query, a link to itself, a dead link, and links leaving the scope.
SiteMixed ==
    (PageA :> {<<"/", "d", "/", "a", "/">>, PageC \o <<"#", "s">>, <<"#", "f">>,
               PageExternal, PageOther, PageDead})
    @@ (PageB :> {<<"b">>, PageA \o <<"/">>, PageQuery, PageB})
    @@ (PageC :> {PageSibling, PageA})
    @@ (PageQuery :> {})
    @@ (PageSibling :> {PageOther})
    @@ (PageOther :> {PageA})
    @@ (PageExternal :> {PageA})

\* A page one of whose anchors cannot be parsed as a URL.
SiteMalformed ==
    (PageA :> {PageB, PageC}) @@ (PageB :> {HrefMalformed, PageC}) @@ (PageC :> {PageA \o <<"/">>})

Sites == {SiteTriangle, SiteMixed, SiteMalformed}

\* The base_url arguments given to the constructor.
BaseArgs == {PageA, PageA \o <<"/">>, PageA \o <<"#", "f">>, PageB}

\* Most injected failures (network errors, processing and persistence
\* errors) in one run.
MaxFailures == 2

(***************************************************************************)
(* State                                                                   *)
(***************************************************************************)
VARIABLES
    site,           \* the site being crawled
    base_arg,       \* the base_url argument of the constructor
    base_url,       \* self.base_url
    visited_urls,   \* self.visited_urls
    urls_to_visit,  \* self.urls_to_visit
    scraped_count,  \* self.scraped_count
    results,        \* the list results of run()
    pc,             \* the position of run() / scrape_page()
    url,            \* the URL popped by run(), <<>> before the first pop
    result,         \* the value returned by scrape_page: <<>> is None
    exc,            \* the exception being raised in scrape_page, or "none"
    report,         \* the totals and pages written by the summary step
    fetched,        \* history: bag of the URLs session.get was called with
    failed,         \* history: the URLs whose fetch raised RequestException
    written,        \* history: the URLs whose document was saved, in order
    nfail,          \* history: number of injected failures
    files,          \* the output directory: file name -> URL of the document it holds
    arg,            \* the arguments of a method called on its own
    ret             \* the value that call returned

vars == <<site, base_arg, base_url, visited_urls, urls_to_visit, scraped_count,
          results, pc, url, result, exc, report, fetched, failed, written, nfail,
          files, arg, ret>>

(***************************************************************************)
(* DocumentationScraper                                                    *)
(***************************************************************************)

\* Mutant of is_valid_url: the prefix must end at a path segment.
is_valid_url_SegmentAware(u) ==
    IF u = <<>> THEN FALSE
    ELSE /\ startswith(rstrip(u, "/"), base_url)
         /\ \/ Len(rstrip(u, "/")) = Len(base_url)
            \/ rstrip(u, "/")[Len(base_url) + 1] \in {"/", "?"}

\* is_valid_url(self, url)
is_valid_url(u) ==
    IF u = <<>> THEN FALSE
    ELSE startswith(rstrip(u, "/"), base_url)

\* normalize_url(self, url)
normalize_url(u) ==
    The({ LET normalized ==
                  rstrip(parsed.scheme \o <<":", "/", "/">> \o parsed.netloc \o parsed.path, "/")
          IN  IF parsed.query # <<>> THEN normalized \o <<"?">> \o parsed.query
              ELSE normalized
          : parsed \in {urlparse(u, <<>>)} })

\* url_to_filename(self, url)
url_to_filename(u) ==
    The({ The({ IF endswith(filename, <<".", "m", "d", "x">>) THEN filename
                ELSE filename \o <<".", "m", "d", "x">>
                : filename \in {SubUnderscores(SubSpecial(Split(path, "?")[1]))} })
          : path \in { IF stripped = <<>> THEN <<"i", "n", "d", "e", "x">> ELSE stripped
                       : stripped \in {strip(replace(u, base_url, <<>>), "/")} } })

\* The page the server answers a request for u with: requests sends no
\* fragment, and the site serves a page with or without a trailing slash.
PageOf(u) == normalize_url(u)

\* Mutant of extract_links: the scope filter is not applied to the links.
extract_links_NoScope(hrefs, current_url) ==
    The({ IF \E j \in joined : j.error
          THEN [error |-> TRUE, links |-> {}]
          ELSE [error |-> FALSE,
                links |-> {normalize_url(j.url) : j \in joined}]
          : joined \in {{urljoin(current_url, h) : h \in hrefs}} })

\* extract_links(self, soup, current_url); hrefs are the href attributes of
\* the anchors of soup.  error is TRUE when urljoin raises.
extract_links(hrefs, current_url) ==
    The({ IF \E j \in joined : j.error
          THEN [error |-> TRUE, links |-> {}]
          ELSE [error |-> FALSE,
                links |-> {n \in {normalize_url(j.url) : j \in joined} : is_valid_url(n)}]
          : joined \in {{urljoin(current_url, h) : h \in hrefs}} })

\* Mutant of PopRest: the URL is read from the set and left in it.
PopRest_Keep(frontier, u) == frontier

\* self.urls_to_visit.pop(): the set without the popped element u.
PopRest(frontier, u) == frontier \ {u}

\* Mutant of MarkVisited: the URL is not recorded before the fetch.
MarkVisited_Skip(visited, u) == visited

\* Mutant of MarkVisited: the set is replaced instead of extended.
MarkVisited_Reset(visited, u) == {u}

\* self.visited_urls.add(url)
MarkVisited(visited, u) == visited \cup {u}

\* Mutant of NewLinks: the visited URLs are not subtracted.
NewLinks_NoFilter(links, visited) == links

\* new_links = links - self.visited_urls
NewLinks(links, visited) == links \ visited

\* Mutant of extract_title: a candidate that is present but empty is kept.
extract_title_NoFallthrough(soup) ==
    IF soup.h1.present THEN strip_ws(soup.h1.text)
    ELSE IF soup.title.present THEN strip_ws(soup.title.text)
    ELSE IF soup.og.present /\ soup.og.has_content /\ strip_ws(soup.og.text) # <<>>
         THEN strip_ws(soup.og.text)
    ELSE <<"U", "n", "t", "i", "t", "l", "e", "d">>

\* extract_title(self, soup).  soup records, for the first h1, the title
\* element and the first og:title meta tag, whether it is present and its
\* text (one text node) or content attribute; None and '' are both <<>>.
extract_title(soup) ==
    The({ The({ The({ IF t3 # <<>> THEN t3 ELSE <<"U", "n", "t", "i", "t", "l", "e", "d">>
                      : t3 \in { IF t2 # <<>> THEN t2
                                 ELSE IF soup.og.present
                                      THEN (IF soup.og.has_content THEN strip_ws(soup.og.text)
                                            ELSE <<>>)
                                 ELSE t2 } })
                : t2 \in { IF t1 # <<>> THEN t1
                           ELSE IF soup.title.present THEN strip_ws(soup.title.text)
                           ELSE t1 } })
          : t1 \in { IF soup.h1.present THEN strip_ws(soup.h1.text) ELSE <<>> } })

\* Mutant of WriteFile: an existing file is left as it is.
WriteFile_KeepFirst(dir, name, doc) == dir @@ (name :> doc)

\* open(filepath, 'w') and f.write: the file name holds doc, whatever it
\* held before.
WriteFile(dir, name, doc) == (name :> doc) @@ dir

\* What a file holds when open(filepath, 'w') succeeded and f.write raised.
Truncated == <<>>

\* Mutant of AppendResult: the result is appended even when it is None.
AppendResult_Always(list, r) == IF r = <<>> THEN Append(list, [url |-> <<>>, links_found |-> 0]) ELSE list \o r

\* if result: results.append(result)
AppendResult(list, r) == list \o r

\* No method is being called on its own.
NoCall == [fn |-> "none"]

\* Mutant of Catches: only the RequestException clause is present.
Catches_RequestOnly(e) == e = "RequestException"

\* The except clauses of scrape_page: RequestException, then Exception.
Catches(e) == e \in {"RequestException", "Exception"}

\* __init__
Init ==
    /\ site \in Sites
    /\ base_arg \in BaseArgs
    /\ base_url = rstrip(base_arg, "/")
    /\ visited_urls = {}
    /\ urls_to_visit = {base_arg}
    /\ scraped_count = 0
    /\ results = <<>>
    /\ pc = "loop"
    /\ url = <<>>
    /\ result = <<>>
    /\ exc = "none"
    /\ report = [scraped |-> 0, analyzed |-> 0, pages |-> <<>>, written |-> FALSE]
    /\ fetched = EmptyBag
    /\ failed = {}
    /\ written = <<>>
    /\ nfail = 0
    /\ files = <<>>
    /\ arg = NoCall
    /\ ret = NoCall

\* run(): while self.urls_to_visit: url = self.urls_to_visit.pop(); any
\* element of the set may be popped.
Pop ==
    /\ pc = "loop"
    /\ urls_to_visit # {}
    /\ \E u \in urls_to_visit :
          /\ url' = u
          /\ urls_to_visit' = PopRest(urls_to_visit, u)
    /\ pc' = "scrape"
    /\ result' = <<>>
    /\ UNCHANGED <<files, arg, ret, site, base_arg, base_url, visited_urls, scraped_count, results,
                   exc, report, fetched, failed, written, nfail>>

\* scrape_page: the already-visited return, else visited_urls.add(url).
Enter ==
    /\ pc = "scrape"
    /\ IF url \in visited_urls
       THEN /\ result' = <<>>
            /\ pc' = "ret"
            /\ UNCHANGED visited_urls
       ELSE /\ visited_urls' = MarkVisited(visited_urls, url)
            /\ pc' = "fetch"
            /\ UNCHANGED result
    /\ UNCHANGED <<files, arg, ret, site, base_arg, base_url, urls_to_visit, scraped_count, results,
                   url, exc, report, fetched, failed, written, nfail>>

\* session.get(url, timeout=10); raise_for_status().  A URL the site does
\* not serve fails; a served page fails when the network does.
Fetch ==
    /\ pc = "fetch"
    /\ fetched' = fetched (+) SetToBag({url})
    /\ \E ok \in BOOLEAN, served \in {PageOf(url) \in DOMAIN site} :
          /\ ok => served
          /\ (~ok /\ served) => nfail < MaxFailures
          /\ IF ok
             THEN /\ pc' = "process"
                  /\ UNCHANGED <<exc, failed, nfail>>
             ELSE /\ pc' = "except"
                  /\ exc' = "RequestException"
                  /\ failed' = failed \cup {url}
                  /\ nfail' = IF served THEN nfail + 1 ELSE nfail
    /\ UNCHANGED <<files, arg, ret, site, base_arg, base_url, visited_urls, urls_to_visit, scraped_count,
                   results, url, result, report, written>>

\* BeautifulSoup, extract_title, extract_content, html_to_mdx,
\* url_to_filename: any of them may raise.
Process ==
    /\ pc = "process"
    /\ \E ok \in BOOLEAN :
          /\ ~ok => nfail < MaxFailures
          /\ IF ok
             THEN /\ pc' = "persist"
                  /\ UNCHANGED <<exc, nfail>>
             ELSE /\ pc' = "except"
                  /\ exc' = "Exception"
                  /\ nfail' = nfail + 1
    /\ UNCHANGED <<files, arg, ret, site, base_arg, base_url, visited_urls, urls_to_visit, scraped_count,
                   results, url, result, report, fetched, failed, written>>

\* open(filepath, 'w') and f.write(mdx_content), then scraped_count += 1.
\* When it raises, open may already have truncated the file.
Persist ==
    /\ pc = "persist"
    /\ \E ok \in BOOLEAN :
          /\ ~ok => nfail < MaxFailures
          /\ IF ok
             THEN /\ files' = WriteFile(files, url_to_filename(url), url)
                  /\ written' = Append(written, url)
                  /\ scraped_count' = scraped_count + 1
                  /\ pc' = "links"
                  /\ UNCHANGED <<exc, nfail>>
             ELSE /\ \E opened \in BOOLEAN :
                        files' = IF opened
                                 THEN WriteFile(files, url_to_filename(url), Truncated)
                                 ELSE files
                  /\ pc' = "except"
                  /\ exc' = "Exception"
                  /\ nfail' = nfail + 1
                  /\ UNCHANGED <<written, scraped_count>>
    /\ UNCHANGED <<arg, ret, site, base_arg, base_url, visited_urls, urls_to_visit, results,
                   url, result, report, fetched, failed>>

\* extract_links, new_links, urls_to_visit.update(new_links) and the
\* returned dict.
Discover ==
    /\ pc = "links"
    /\ \E el \in {extract_links(site[PageOf(url)], url)} :
          IF el.error
          THEN /\ pc' = "except"
               /\ exc' = "Exception"
               /\ UNCHANGED <<urls_to_visit, result>>
          ELSE /\ urls_to_visit' = urls_to_visit \cup NewLinks(el.links, visited_urls)
               /\ result' = <<[url |-> url, links_found |-> Cardinality(el.links)]>>
               /\ pc' = "ret"
               /\ UNCHANGED exc
    /\ UNCHANGED <<files, arg, ret, site, base_arg, base_url, visited_urls, scraped_count, results,
                   url, report, fetched, failed, written, nfail>>

\* The except clauses of scrape_page return None; an exception no clause
\* catches propagates out of run().
Handle ==
    /\ pc = "except"
    /\ IF Catches(exc)
       THEN /\ result' = <<>>
            /\ pc' = "ret"
       ELSE /\ pc' = "aborted"
            /\ UNCHANGED result
    /\ exc' = "none"
    /\ UNCHANGED <<files, arg, ret, site, base_arg, base_url, visited_urls, urls_to_visit, scraped_count,
                   results, url, report, fetched, failed, written, nfail>>

\* run(): if result: results.append(result); time.sleep(0.5)
Collect ==
    /\ pc = "ret"
    /\ results' = AppendResult(results, result)
    /\ result' = <<>>
    /\ pc' = "loop"
    /\ UNCHANGED <<files, arg, ret, site, base_arg, base_url, visited_urls, urls_to_visit, scraped_count,
                   url, exc, report, fetched, failed, written, nfail>>

\* run(): the loop ends when urls_to_visit is empty.
Exit ==
    /\ pc = "loop"
    /\ urls_to_visit = {}
    /\ pc' = "done"
    /\ UNCHANGED <<files, arg, ret, site, base_arg, base_url, visited_urls, urls_to_visit, scraped_count,
                   results, url, result, exc, report, fetched, failed, written, nfail>>

\* run(): the totals printed and written to scraping_summary.txt, with one
\* entry per element of results.
Summary ==
    /\ pc = "done"
    /\ report' = [scraped |-> scraped_count, analyzed |-> Cardinality(visited_urls),
                  pages |-> results, written |-> TRUE]
    /\ pc' = "returned"
    /\ UNCHANGED <<files, arg, ret, site, base_arg, base_url, visited_urls, urls_to_visit, scraped_count,
                   results, url, result, exc, fetched, failed, written, nfail>>

Next ==
    \/ Pop
    \/ Enter
    \/ Fetch
    \/ Process
    \/ Persist
    \/ Discover
    \/ Handle
    \/ Collect
    \/ Exit
    \/ Summary

Spec == Init /\ [][Next]_vars

\* run() is one sequential thread: every step it can take it takes, and
\* session.get returns within its timeout.
FairSpec == Spec /\ WF_vars(Next)

(***************************************************************************)
(* The methods called on their own, on a freshly constructed scraper       *)
(***************************************************************************)

\* The URLs the methods are called with.
UrlPaths ==
    {<<>>, <<"/", "d">>, <<"/", "d", "/", "a">>, <<"/", "d", "/", "a", "/", "b">>,
     <<"/", "d", "d">>, <<"/", "d", "-", "i">>, <<"/", "o">>,
     <<"/", "d", "/", "a", ".", "m", "d", "x">>, <<"/", "d", "/", "a", "_", "_", "b">>,
     <<"/", "d", "/">> \o PageA \o <<"/", "a">>}

UrlTails ==
    {<<>>, <<"/">>, <<"/", "/">>, <<"#", "f">>, <<"?", "q">>, <<"?", "x", "=", "1">>,
     <<"/", "?", "q">>, <<"?", "q", "#", "f">>}

UrlInputs ==
    {<<>>} \cup {o \o p \o t : o \in {Origin, <<"H", ":", "/", "/", "x">>},
                               p \in UrlPaths, t \in UrlTails}

\* The fragments and queries appended to a URL given to normalize_url.
FragmentInputs == {<<>>, <<"f">>, <<"s", "/">>, <<"a", "?", "b">>}

QueryInputs == {<<"q">>, <<"x", "=", "1">>, <<"q", "/">>}

\* The parsed pages given to extract_title.
Absent == [present |-> FALSE, text |-> <<>>]

Element(text) == [present |-> TRUE, text |-> text]

Meta(has_content, text) == [present |-> TRUE, has_content |-> has_content, text |-> text]

SoupInputs ==
    [h1    : {Absent, Element(<<>>), Element(<<" ">>), Element(<<" ", "a", " ">>)},
     title : {Absent, Element(<<" ", " ">>), Element(<<"b">>)},
     og    : {[present |-> FALSE, has_content |-> FALSE, text |-> <<>>],
              Meta(FALSE, <<>>), Meta(TRUE, <<" ">>), Meta(TRUE, <<" ", "c">>)}]

CallArgs ==
    [fn : {"is_valid_url", "normalize_url", "url_to_filename"}, url : UrlInputs]
    \cup [fn : {"extract_title"}, soup : SoupInputs]

\* __init__, then one method is about to be called with arg.
FnInit ==
    /\ site = SiteTriangle
    /\ base_arg \in BaseArgs
    /\ base_url = rstrip(base_arg, "/")
    /\ visited_urls = {}
    /\ urls_to_visit = {base_arg}
    /\ scraped_count = 0
    /\ results = <<>>
    /\ pc = "call"
    /\ url = <<>>
    /\ result = <<>>
    /\ exc = "none"
    /\ report = [scraped |-> 0, analyzed |-> 0, pages |-> <<>>, written |-> FALSE]
    /\ fetched = EmptyBag
    /\ failed = {}
    /\ written = <<>>
    /\ nfail = 0
    /\ files = <<>>
    /\ arg \in CallArgs
    /\ ret = NoCall

\* The methods read self.base_url and change nothing.
Returned ==
    /\ pc' = "called"
    /\ UNCHANGED <<files, arg, site, base_arg, base_url, visited_urls, urls_to_visit,
                   scraped_count, results, url, result, exc, report, fetched, failed,
                   written, nfail>>

\* is_valid_url(arg.url)
Call_is_valid_url ==
    /\ pc = "call"
    /\ arg.fn = "is_valid_url"
    /\ ret' = [value |-> is_valid_url(arg.url)]
    /\ Returned

\* normalize_url(arg.url), and normalize_url of the same URL followed by a
\* slash, by a fragment and by a query.
Call_normalize_url ==
    /\ pc = "call"
    /\ arg.fn = "normalize_url"
    /\ \E f \in FragmentInputs, q \in QueryInputs :
          ret' = [value         |-> normalize_url(arg.url),
                  with_slash    |-> normalize_url(arg.url \o <<"/">>),
                  fragment      |-> f,
                  with_fragment |-> normalize_url(arg.url \o <<"#">> \o f),
                  query         |-> q,
                  with_query    |-> normalize_url(arg.url \o <<"?">> \o q)]
    /\ Returned

\* url_to_filename(arg.url)
Call_url_to_filename ==
    /\ pc = "call"
    /\ arg.fn = "url_to_filename"
    /\ ret' = [value |-> url_to_filename(arg.url)]
    /\ Returned

\* extract_title(arg.soup)
Call_extract_title ==
    /\ pc = "call"
    /\ arg.fn = "extract_title"
    /\ ret' = [value |-> extract_title(arg.soup)]
    /\ Returned

FnNext ==
    \/ Call_is_valid_url
    \/ Call_normalize_url
    \/ Call_url_to_filename
    \/ Call_extract_title

FnSpec == FnInit /\ [][FnNext]_vars

(***************************************************************************)
(* Properties                                                              *)
(***************************************************************************)

\* The links extract_links finds on the page being processed.
CurrentLinks == extract_links(site[PageOf(url)], url).links

\* The normalized targets of all anchors of the page being processed.
CurrentTargets ==
    {normalize_url(urljoin(url, h).url) : h \in {g \in site[PageOf(url)] : ~urljoin(url, g).error}}

\* C1: the frontier and the visited set are disjoint in every state, and
\* the URL run() has popped and is about to pass to scrape_page is not in
\* the visited set, so the already-visited return is never taken.
C1_FrontierVisitedDisjoint ==
    /\ urls_to_visit \cap visited_urls = {}
    /\ pc = "scrape" => url \notin visited_urls

\* C1 witness: link discovery has run on a page that links to visited URLs
\* while other URLs wait in the frontier.
C1_Witness ==
    /\ pc = "ret"
    /\ result # <<>>
    /\ CurrentLinks \cap visited_urls # {}
    /\ urls_to_visit # {}

\* C2: every URL in the frontier or in the visited set passes the scope
\* filter is_valid_url for the configured base prefix.
C2_AllInScope ==
    \A u \in urls_to_visit \cup visited_urls : is_valid_url(u)

\* C2 witness: link discovery has run on a page with a link whose target is
\* outside the scope, and has added other links to the frontier.
C2_Witness ==
    /\ pc = "ret"
    /\ result # <<>>
    /\ \E t \in CurrentTargets : ~is_valid_url(t)
    /\ urls_to_visit # {}

\* C3: a URL whose fetch failed has no PageResult and is not in the
\* frontier, in every later state of the run.
C3_FailedNeverRequeued ==
    \A u \in failed :
        /\ u \notin urls_to_visit
        /\ \A i \in 1..Len(results) : results[i].url # u
        /\ \A i \in 1..Len(result) : result[i].url # u

\* C3 witness: a page processed after the failure links to the failed URL.
C3_Witness ==
    /\ pc = "ret"
    /\ result # <<>>
    /\ CurrentLinks \cap failed # {}

\* C4: no page is fetched more than once: each URL is fetched once, and two
\* fetched URLs with the same normalized form are the same URL.
C4_OneFetchPerPage ==
    \A u \in BagToSet(fetched) :
        /\ CopiesIn(u, fetched) = 1
        /\ \A v \in BagToSet(fetched) : normalize_url(u) = normalize_url(v) => u = v

\* The pages reachable from the pages in s through in-scope links.
RECURSIVE ReachableFrom(_)
ReachableFrom(s) ==
    LET step == s \cup UNION {extract_links(site[p], p).links : p \in s \cap DOMAIN site}
    IN  IF step = s THEN s ELSE ReachableFrom(step)

\* The in-scope pages reachable from the base URL.
Reachable == ReachableFrom({normalize_url(base_arg)})

\* Every fetch and every processing step of the run so far has succeeded.
AllSucceeded ==
    /\ failed = {}
    /\ nfail = 0
    /\ \A u \in visited_urls : ~extract_links(site[PageOf(u)], u).error

\* C5: when every step succeeds, at the end of run() the visited pages are
\* the in-scope pages reachable from the base URL, and the number of
\* PageResults and the two reported totals equal the number of those pages.
C5_VisitsExactlyReachable ==
    (pc = "returned" /\ AllSucceeded) =>
        /\ {normalize_url(u) : u \in visited_urls} = Reachable
        /\ Len(results) = Cardinality(Reachable)
        /\ report.scraped = Cardinality(Reachable)
        /\ report.analyzed = Cardinality(Reachable)

\* C6: the crawl loop eventually ends with an empty frontier, and the
\* summary step then receives the results sequence.
C6_Terminates ==
    /\ <>(pc = "done" /\ urls_to_visit = {})
    /\ (pc = "done") ~> (pc = "returned" /\ report.written /\ report.pages = results)

\* C6 witness: a run over several pages, some failed and some processed,
\* has reached the summary.
C6_Witness ==
    /\ pc = "returned"
    /\ failed # {}
    /\ results # <<>>
    /\ Cardinality(visited_urls) >= 3

\* C7: a URL whose fetch is about to begin, is in progress or has finished
\* is in the visited set.
C7_VisitedBeforeFetch ==
    /\ pc \in {"fetch", "process", "persist", "links", "except"} => url \in visited_urls
    /\ \A u \in BagToSet(fetched) : u \in visited_urls

\* C7 witness: the popped URL has been marked and its fetch has not begun.
C7_Witness ==
    /\ pc = "fetch"
    /\ url \in visited_urls
    /\ ~BagIn(url, fetched)

\* C8: no step removes a URL from the visited set.
C8_VisitedMonotone ==
    [][visited_urls \subseteq visited_urls']_vars

\* C8 witness: the visited set has grown over successful and failed pages.
C8_Witness ==
    /\ Cardinality(visited_urls) >= 3
    /\ failed # {}
    /\ results # <<>>
    /\ exc = "Exception"

\* The URLs of the sites and base arguments above.
Universe ==
    BaseArgs \cup {PageA, PageB, PageC, PageSibling, PageOther, PageQuery,
                   PageDead, PageExternal}

\* C9: no failure in scrape_page aborts run(): the exception is caught, and
\* every URL in the frontier is eventually dequeued and processed.
C9_FailureNeverAborts ==
    /\ [](pc # "aborted")
    /\ [][pc = "except" => (pc' = "ret" /\ result' = <<>> /\ urls_to_visit' = urls_to_visit)]_vars
    /\ \A u \in Universe : (u \in urls_to_visit) ~> (u \in visited_urls)

\* C9 witness: a processing step after the fetch has raised while URLs
\* remain in the frontier.
C9_Witness ==
    /\ pc = "except"
    /\ exc = "Exception"
    /\ urls_to_visit # {}

\* C10: at the end of run() the number of PageResults equals the number of
\* persisted documents, which is scraped_count.
C10_ResultsMatchPersisted ==
    pc \in {"done", "returned"} =>
        /\ Len(results) = Len(written)
        /\ Len(written) = scraped_count

\* The number of slashes s ends with.
TrailingSlashes(s) ==
    Len(s) - (CHOOSE k \in 0..Len(s) :
                 /\ k = 0 \/ s[k] # "/"
                 /\ \A j \in (k + 1)..Len(s) : s[j] = "/")

\* s without the slashes it ends with.
WithoutTrailingSlashes(s) == SubSeq(s, 1, Len(s) - TrailingSlashes(s))

\* s consists of p followed by some string.
HasPrefix(s, p) == \E k \in 0..Len(s) : s = p \o SubSeq(s, k + 1, Len(s))

\* C11: every element of the frontier and of the visited set is a
\* NormalizedURL: it equals normalize_url of itself, ends in no slash and
\* has no fragment.
C11_AllNormalized ==
    \A u \in urls_to_visit \cup visited_urls :
        /\ normalize_url(u) = u
        /\ TrailingSlashes(u) = 0
        /\ \A i \in 1..Len(u) : u[i] # "#"

\* C12: is_valid_url(url) is true iff url is non-empty and url without its
\* trailing slashes starts with the base URL without its trailing slashes;
\* with base https://x.com/d it accepts /d/a and the sibling /d-i and
\* rejects /o.
C12_ScopeFilterIsPrefixTest ==
    (pc = "called" /\ arg.fn = "is_valid_url") =>
        /\ ret.value = (/\ arg.url # <<>>
                        /\ HasPrefix(WithoutTrailingSlashes(arg.url),
                                     WithoutTrailingSlashes(base_arg)))
        /\ (base_arg = PageA /\ arg.url = PageB) => ret.value = TRUE
        /\ (base_arg = PageA /\ arg.url = PageOther) => ret.value = FALSE
        /\ (base_arg = PageA /\ arg.url = PageA \o <<"-", "i">>) => ret.value = TRUE
        /\ arg.url = <<>> => ret.value = FALSE

\* C12 witness: the filter has accepted a sibling path of the base.
C12_Witness ==
    /\ pc = "called"
    /\ arg.fn = "is_valid_url"
    /\ base_arg = PageA
    /\ arg.url = PageA \o <<"-", "i">>
    /\ ret.value = TRUE

\* u is an absolute URL (scheme, host, path) without query or fragment.
IsPlainAbsolute(u) ==
    /\ Len(u) >= 5
    /\ Lower(SubSeq(u, 1, 4)) = <<"h", ":", "/", "/">>
    /\ u[5] \in Alpha
    /\ \A i \in 1..Len(u) : u[i] \notin {"?", "#"}

\* C13: for an absolute URL u without query or fragment, normalize_url of
\* u followed by a slash or by # and a fragment equals normalize_url(u), and
\* normalize_url of u followed by ? and a query is normalize_url(u) followed
\* by ? and that query.
C13_NormalizeIgnoresSlashAndFragment ==
    (pc = "called" /\ arg.fn = "normalize_url" /\ IsPlainAbsolute(arg.url)) =>
        /\ ret.with_slash = ret.value
        /\ ret.with_fragment = ret.value
        /\ ret.with_query = ret.value \o <<"?">> \o ret.query

\* C13 witness: normalize_url was applied to a URL that itself ends in a
\* slash, with a non-empty fragment.
C13_Witness ==
    /\ pc = "called"
    /\ arg.fn = "normalize_url"
    /\ IsPlainAbsolute(arg.url)
    /\ TrailingSlashes(arg.url) = 1
    /\ ret.fragment # <<>>

\* C14 as stated: for a URL whose path ends in two or more slashes, the
\* result ends in one slash fewer than the path.
C14_StripsExactlyOneSlash ==
    (pc = "called" /\ arg.fn = "normalize_url" /\ IsPlainAbsolute(arg.url)
        /\ TrailingSlashes(arg.url) >= 2) =>
        TrailingSlashes(ret.value) = TrailingSlashes(arg.url) - 1

\* C14 as amended: normalize_url strips every trailing slash: for a URL
\* without query or fragment the result ends in no slash, and is the URL,
\* scheme in lower case, without the slashes it ends with.
C14_StripsEveryTrailingSlash ==
    (pc = "called" /\ arg.fn = "normalize_url" /\ IsPlainAbsolute(arg.url)) =>
        /\ TrailingSlashes(ret.value) = 0
        /\ ret.value = <<"h">> \o Drop(WithoutTrailingSlashes(arg.url), 1)

\* C14 witness: normalize_url was applied to a URL ending in two slashes.
C14_Witness ==
    /\ pc = "called"
    /\ arg.fn = "normalize_url"
    /\ IsPlainAbsolute(arg.url)
    /\ TrailingSlashes(arg.url) = 2

\* The 1-based position of the first occurrence of p in s, 0 if none.
FirstOccurrence(s, p) ==
    LET at == {i \in 1..(Len(s) - Len(p) + 1) : SubSeq(s, i, i + Len(p) - 1) = p}
    IN  IF at = {} THEN 0 ELSE CHOOSE i \in at : \A j \in at : i <= j

\* s without the first occurrence of p.
WithoutFirst(s, p) ==
    LET i == FirstOccurrence(s, p)
    IN  IF i = 0 THEN s ELSE SubSeq(s, 1, i - 1) \o Drop(s, i + Len(p) - 1)

\* s without any occurrence of p, occurrences taken left to right.
RECURSIVE WithoutEvery(_, _)
WithoutEvery(s, p) ==
    LET i == FirstOccurrence(s, p)
    IN  IF i = 0 THEN s
        ELSE SubSeq(s, 1, i - 1) \o WithoutEvery(Drop(s, i + Len(p) - 1), p)

\* s with every run of characters outside [alphanumeric _ - .] replaced by
\* one underscore and repeated underscores collapsed, built left to right.
RECURSIVE Sanitized(_, _)
Sanitized(s, out) ==
    IF s = <<>> THEN out
    ELSE LET c == IF s[1] \in Alpha \cup Digits \cup {"_", "-", "."} THEN s[1] ELSE "_"
         IN  IF c = "_" /\ out # <<>> /\ out[Len(out)] = "_"
             THEN Sanitized(Tail(s), out)
             ELSE Sanitized(Tail(s), Append(out, c))

\* The file name the steps of the claim give for a URL from which the base
\* prefix has been removed.
FilenameFrom(removed) ==
    LET stripped == SubSeq(removed, Len(removed) - Len(lstrip(removed, "/")) + 1,
                           Len(removed) - TrailingSlashes(removed))
        path     == IF stripped = <<>> THEN <<"i", "n", "d", "e", "x">> ELSE stripped
        qm       == FindAny(path, {"?"})
        noquery  == IF qm = 0 THEN path ELSE SubSeq(path, 1, qm - 1)
        name     == Sanitized(noquery, <<>>)
        n        == Len(name)
    IN  IF n >= 4 /\ SubSeq(name, n - 3, n) = <<".", "m", "d", "x">> THEN name
        ELSE name \o <<".", "m", "d", "x">>

\* The examples of the claim: with base https://x.com/d, the base maps to
\* index.mdx and /d/a/b?x=1 to a_b.mdx.
FilenameExamples ==
    /\ (base_arg = PageA /\ arg.url = PageA) =>
           ret.value = <<"i", "n", "d", "e", "x", ".", "m", "d", "x">>
    /\ (base_arg = PageA /\ arg.url = PageA \o <<"/", "a", "/", "b", "?", "x", "=", "1">>) =>
           ret.value = <<"a", "_", "b", ".", "m", "d", "x">>

\* C15 as stated: url_to_filename removes only the first occurrence of the
\* base prefix, then strips, substitutes index, drops the query, replaces,
\* collapses and appends .mdx.
C15_FilenameRemovesFirstOccurrence ==
    (pc = "called" /\ arg.fn = "url_to_filename") =>
        /\ ret.value = FilenameFrom(WithoutFirst(arg.url, WithoutTrailingSlashes(base_arg)))
        /\ FilenameExamples

\* C15 as amended: the same steps after removing every occurrence of the
\* base prefix.
C15_FilenameRemovesEveryOccurrence ==
    (pc = "called" /\ arg.fn = "url_to_filename") =>
        /\ ret.value = FilenameFrom(WithoutEvery(arg.url, WithoutTrailingSlashes(base_arg)))
        /\ FilenameExamples

\* C15 witness: url_to_filename was applied to a URL that contains the base
\* prefix twice.
C15_Witness ==
    /\ pc = "called"
    /\ arg.fn = "url_to_filename"
    /\ FirstOccurrence(WithoutFirst(arg.url, base_url), base_url) # 0

\* The candidates of extract_title in order, trimmed; <<>> when absent.
TitleCandidates(soup) ==
    << IF soup.h1.present THEN strip(soup.h1.text, " ") ELSE <<>>,
       IF soup.title.present THEN strip(soup.title.text, " ") ELSE <<>>,
       IF soup.og.present /\ soup.og.has_content THEN strip(soup.og.text, " ") ELSE <<>> >>

\* C16: extract_title returns the first candidate (h1, title element,
\* og:title content) that is non-empty after trimming, and Untitled when
\* there is none.
C16_TitleIsFirstNonEmptyCandidate ==
    (pc = "called" /\ arg.fn = "extract_title") =>
        LET c == TitleCandidates(arg.soup)
            nonempty == {i \in 1..3 : c[i] # <<>>}
        IN  IF nonempty = {}
            THEN ret.value = <<"U", "n", "t", "i", "t", "l", "e", "d">>
            ELSE ret.value = c[CHOOSE i \in nonempty : \A j \in nonempty : i <= j]

\* C16 witness: the h1 and the title element are present and empty after
\* trimming, and the og:title content was returned.
C16_Witness ==
    /\ pc = "called"
    /\ arg.fn = "extract_title"
    /\ arg.soup.h1.present
    /\ arg.soup.title.present
    /\ ret.value = <<"c">>

PageFiles == {n \in DOMAIN files : files[n] # Truncated}

\* The positions in written of two distinct URLs with the same file name,
\* both processed without error.
CollidingPairs ==
    {p \in (1..Len(written)) \X (1..Len(written)) :
        /\ p[1] < p[2]
        /\ written[p[1]] # written[p[2]]
        /\ url_to_filename(written[p[1]]) = url_to_filename(written[p[2]])
        /\ \A k \in {p[1], p[2]} : ~extract_links(site[PageOf(written[k])], written[k]).error}

\* C18: at the end of a run, two distinct URLs with the same file name that
\* were both processed without error each have a PageResult and each
\* counted in scraped_count; the file holds the document written last under
\* that name (or was truncated by a later failed write), and fewer files
\* hold a document than scraped_count says.
C18_CollisionLastWriteWins ==
    pc = "returned" =>
        \A p \in CollidingPairs :
            LET name == url_to_filename(written[p[1]])
                last == CHOOSE k \in 1..Len(written) :
                            /\ url_to_filename(written[k]) = name
                            /\ \A j \in 1..Len(written) :
                                  url_to_filename(written[j]) = name => j <= k
            IN  /\ \A k \in {p[1], p[2]} : \E i \in 1..Len(results) : results[i].url = written[k]
                /\ scraped_count = Len(written)
                /\ report.scraped = scraped_count
                /\ name \in DOMAIN files
                /\ files[name] \in {written[last], Truncated}
                /\ Cardinality(PageFiles) < scraped_count

\* C18 witness: a run has ended in which two URLs with the same file name
\* were processed and the file holds the document of the second.
C18_Witness ==
    /\ pc = "returned"
    /\ \E p \in CollidingPairs : files[url_to_filename(written[p[1]])] = written[p[2]]

\* C19: the steps that process a URL whose fetch fails (entering
\* scrape_page, the failing fetch, the except clause, the return to run())
\* leave the frontier, the results, scraped_count and the files as they
\* are; only entering scrape_page changes the visited set, by adding the URL.
C19_FailedFetchChangesOnlyVisited ==
    [][(\/ pc = "scrape"
        \/ pc = "fetch" /\ pc' = "except"
        \/ pc \in {"except", "ret"} /\ url \in failed) =>
          /\ urls_to_visit' = urls_to_visit
          /\ results' = results
          /\ scraped_count' = scraped_count
          /\ files' = files
          /\ written' = written
          /\ visited_urls' = IF pc = "scrape" THEN visited_urls \cup {url} ELSE visited_urls]_vars

\* C19 witness: a failed page has been processed while pages were saved
\* before it and URLs remain in the frontier.
C19_Witness ==
    /\ pc = "loop"
    /\ url \in failed
    /\ urls_to_visit # {}
    /\ results # <<>>
    /\ DOMAIN files # {}

=============================================================================
